---- MODULE Spec2Model ----
(***************************************************************************)
(* A model of the embedpls language server: the framing encoder            *)
(* (internal/rpc), the read loop (cmd/embedpls/cmd-lsp.go), the dispatcher *)
(* and its handlers (package server, latest revision) and the document     *)
(* store (package safe).                                                   *)
(***************************************************************************)
EXTENDS Integers, Sequences, FiniteSets, TLC

VARIABLES
    proc,       \* the process: "running", "eof", "returnedErr", "panicked", "exited"
    loop,       \* the read loop's position: "scan", "dispatch", "select", "write"
    n,          \* number of frames the scanner has returned so far
    cur,        \* the frame being handled (NoFrame before the first)
    resp,       \* the value Handle returned to the read loop (Nil when none)
    now,        \* the clock: ticks since the server started
    deadline,   \* the instant at which the current message's context expires
    tasks,      \* the handler goroutines Handle has started, by frame number
    documents,  \* the Document Store's map: URI -> text, Absent when not a key
    cancelMap,  \* the handler's in-flight table field (NilPtr or a map)
    out,        \* the reply frames written to the output stream, in order
    hist,       \* per frame read: its method, its outcome and the replies written
    encIn,      \* a call of rpc.Encode: its context (done or not) and its message
    encOut,     \* what the call returned: (string, error); pending before it returns
    store,      \* a *safe.Map shared by concurrent callers
    mu,         \* its sync.RWMutex: the readers holding it, and whether a writer does
    thr,        \* the callers: the operation each is in, its position, what it returned
    mlog,       \* the mutations of store, in the order they took the lock
    snaps,      \* the slices Values() has returned, with the map at that instant
    scn,        \* a bufio.Scanner splitting with rpc.Split: its input, buffer and tokens
    prs         \* a call of parsers.ParseSourcePosition: its arguments and its result

srv == <<proc, loop, n, cur, resp, now, deadline, tasks, documents, cancelMap, out, hist>>
lib == <<store, mu, thr, mlog, snaps, scn, prs>>
vars == <<srv, encIn, encOut, lib>>

----------------------------------------------------------------------------
(* Bounds of the model *)

\* frames the client sends before it closes the input
MaxFrames == 3
\* request identifiers are 0..MaxId
MaxId == 1
\* clock ticks per second of the deadline
TicksPerSecond == 1

(* Program constants *)

\* context.WithTimeout(ctx, time.Second*1)
TimeoutSeconds == 1

Deadline == TimeoutSeconds * TicksPerSecond

----------------------------------------------------------------------------
(* Values *)

Nil == "nil"

\* a Go string is a sequence of one-character strings
GoSuffix == <<".", "g", "o">>
UriGo == <<"a", ".", "g", "o">>
UriMd == <<"b", ".", "m", "d">>
URIs == {UriGo, UriMd}

TextA == <<"/", "/", "g">>
\* the line `// go:embed foo.txt`
EmbedDirective ==
    <<"/", "/", " ", "g", "o", ":", "e", "m", "b", "e", "d", " ",
      "f", "o", "o", ".", "t", "x", "t">>
TextB == EmbedDirective \o <<"\n">>
Texts == {TextA, TextB}

Ids == 0..MaxId

\* strings.HasSuffix(s, suffix)
HasSuffix(s, suffix) ==
    /\ Len(s) >= Len(suffix)
    /\ SubSeq(s, Len(s) - Len(suffix) + 1, Len(s)) = suffix

\* strings.HasPrefix(s, prefix)
HasPrefix(s, prefix) ==
    /\ Len(s) >= Len(prefix)
    /\ SubSeq(s, 1, Len(prefix)) = prefix

----------------------------------------------------------------------------
(* The frames a client can send.  A frame that DecodeMessage rejects has   *)
(* wf = FALSE; a body that does not unmarshal into the shape its method    *)
(* expects has ok = FALSE.                                                 *)

MInitialize == "initialize"
MInitialized == "initialized"
MShutdown == "shutdown"
MExit == "exit"
MCancel == "$/cancelRequest"
MDidOpen == "textDocument/didOpen"
MDidChange == "textDocument/didChange"
MWillSave == "textDocument/willSave"
MDidSave == "textDocument/didSave"
MDidClose == "textDocument/didClose"
MHover == "textDocument/hover"
MCompletion == "textDocument/completion"
MDefinition == "textDocument/definition"
MCodeAction == "textDocument/codeAction"
MUnknown == "workspace/symbol"

\* the `id` of protocol.CancelParams after json.Unmarshal into interface{}
\* (n: the number of a float64, s: the characters of a string)
NoCid == [t |-> "nil", n |-> 0, s |-> <<>>]
CancelIds ==
    {[t |-> "float64", n |-> i, s |-> <<>>] : i \in Ids}
        \cup {[t |-> "string", n |-> 0, s |-> <<"1">>],
              [t |-> "string", n |-> 0, s |-> <<"x">>], NoCid}

\* the lines a position can name: 0..MaxLine
MaxLine == 1

Frame(m, ok, id, uri, text, changes, line, cid) ==
    [wf |-> TRUE, m |-> m, ok |-> ok, id |-> id, uri |-> uri, text |-> text,
     changes |-> changes, line |-> line, cid |-> cid]

Plain(m, ok, id) == Frame(m, ok, id, <<>>, <<>>, <<>>, 0, NoCid)

BadFrame == [Plain("", FALSE, 0) EXCEPT !.wf = FALSE]

ChangeLists == {<<>>, <<TextA>>, <<TextB, TextA>>}

Frames ==
    {BadFrame}
        \cup {Plain(m, TRUE, 0) : m \in {MInitialized, MWillSave, MExit, MUnknown}}
        \cup {Plain(m, TRUE, i) : m \in {MInitialize, MShutdown}, i \in Ids}
        \cup {Plain(m, TRUE, MaxId) : m \in {MDefinition, MCodeAction}}
        \cup {Plain(m, FALSE, 0) : m \in {MInitialize, MShutdown, MDefinition, MCodeAction,
                                          MCancel, MDidOpen, MDidChange, MDidSave,
                                          MDidClose, MHover, MCompletion}}
        \cup {Frame(MCancel, TRUE, 0, <<>>, <<>>, <<>>, 0, c) : c \in CancelIds}
        \cup {Frame(MDidOpen, TRUE, 0, u, t, <<>>, 0, NoCid) : u \in URIs, t \in Texts}
        \cup {Frame(MDidChange, TRUE, 0, u, <<>>, cs, 0, NoCid) : u \in URIs, cs \in ChangeLists}
        \cup {Frame(m, TRUE, 0, u, <<>>, <<>>, 0, NoCid) : m \in {MDidSave, MDidClose}, u \in URIs}
        \cup {Frame(MHover, TRUE, i, u, <<>>, <<>>, l, NoCid) :
                i \in Ids, u \in URIs, l \in 0..MaxLine}
        \cup {Frame(MCompletion, TRUE, MaxId, u, <<>>, <<>>, l, NoCid) :
                u \in URIs, l \in 0..MaxLine}

\* the frames of the runs checked for progress: one of each behaviour
LiveFrames ==
    {BadFrame, Plain(MUnknown, TRUE, 0), Plain(MInitialize, TRUE, MaxId),
     Frame(MDidOpen, TRUE, 0, UriGo, TextA, <<>>, 0, NoCid),
     Frame(MDidSave, TRUE, 0, UriGo, <<>>, <<>>, 0, NoCid),
     Frame(MDidChange, TRUE, 0, UriGo, <<>>, <<>>, 0, NoCid),
     Frame(MHover, TRUE, MaxId, UriGo, <<>>, <<>>, 0, NoCid),
     Frame(MCompletion, TRUE, MaxId, UriGo, <<>>, <<>>, 0, NoCid)}

----------------------------------------------------------------------------
(* package safe: Map.  A *Map is the nil pointer or a Go map; the Go map   *)
(* is a function from the keys of the model to entries, Absent for a key   *)
(* that is not in it.                                                      *)

Absent == [in |-> FALSE, v |-> <<>>]
Entry(v) == [in |-> TRUE, v |-> v]
NilPtr == [nil |-> TRUE, m |-> <<>>]

\* NewSafeMap: &Map{m: make(map[K]V)}
NewSafeMap(keys) == [nil |-> FALSE, m |-> [k \in keys |-> Absent]]

\* a Get that reports every key as found
MapGetAlwaysOk(sm, key) ==
    IF sm.nil THEN [panic |-> TRUE, val |-> <<>>, ok |-> FALSE]
    ELSE IF key \notin DOMAIN sm.m THEN [panic |-> FALSE, val |-> <<>>, ok |-> TRUE]
    ELSE [panic |-> FALSE, val |-> sm.m[key].v, ok |-> TRUE]

\* Map.Get: (&val, ok); on a nil receiver sm.mu.RLock() panics
MapGet(sm, key) ==
    IF sm.nil THEN [panic |-> TRUE, val |-> <<>>, ok |-> FALSE]
    ELSE IF key \notin DOMAIN sm.m THEN [panic |-> FALSE, val |-> <<>>, ok |-> FALSE]
    ELSE [panic |-> FALSE, val |-> sm.m[key].v, ok |-> sm.m[key].in]

\* a Set that builds a new map holding only the key it sets
MapSetFresh(sm, key, value) ==
    [sm EXCEPT !.m = [k \in DOMAIN sm.m |-> IF k = key THEN Entry(value) ELSE Absent]]

\* Map.Set: sm.m[key] = value
MapSet(sm, key, value) == [sm EXCEPT !.m[key] = Entry(value)]

\* Map.Delete: delete(sm.m, key)
MapDelete(sm, key) == [sm EXCEPT !.m[key] = Absent]

\* Map.Len: len(sm.m)
MapLen(sm) == Cardinality({k \in DOMAIN sm.m : sm.m[k].in})

\* the orders in which a range over the map can visit its keys
KeyOrders(sm) ==
    LET present == {k \in DOMAIN sm.m : sm.m[k].in}
    IN  {o \in [1..Cardinality(present) -> present] :
            \A i, j \in DOMAIN o : i # j => o[i] # o[j]}

\* a Values that hands out a view of the live map instead of a copy
MapValuesView(sm) ==
    IF sm.nil THEN [panic |-> TRUE, view |-> FALSE, slices |-> {}]
    ELSE [panic |-> FALSE, view |-> TRUE, slices |-> {<<>>}]

\* Map.Values: a new slice of the values, in the order of the range; on a nil
\* receiver sm.mu.RLock() panics
MapValues(sm) ==
    IF sm.nil THEN [panic |-> TRUE, view |-> FALSE, slices |-> {}]
    ELSE [panic |-> FALSE, view |-> FALSE,
          slices |-> {[i \in DOMAIN o |-> sm.m[o[i]].v] : o \in KeyOrders(sm)}]

\* Map.Clear: sm.m = make(map[K]V)
MapClear(sm) == [sm EXCEPT !.m = [k \in DOMAIN sm.m |-> Absent]]

----------------------------------------------------------------------------
(* package lsp *)

Digits == <<"0", "1", "2", "3", "4", "5", "6", "7", "8", "9">>
IsDigit(c) == \E d \in 1..10 : Digits[d] = c
DigitVal(c) == (CHOOSE d \in 1..10 : Digits[d] = c) - 1

RECURSIVE AtoiDigits(_)
AtoiDigits(s) ==
    IF s = <<>> THEN 0 ELSE 10 * AtoiDigits(SubSeq(s, 1, Len(s) - 1)) + DigitVal(s[Len(s)])

\* strconv.Atoi on the strings of the model (unsigned decimal digits)
Atoi(s) ==
    IF s # <<>> /\ \A i \in 1..Len(s) : IsDigit(s[i])
    THEN [err |-> FALSE, v |-> AtoiDigits(s)]
    ELSE [err |-> TRUE, v |-> 0]

\* lsp.ParseCancelParams: the id as an int, or an error
ParseCancelParams(cid) ==
    IF cid.t = "float64" THEN [err |-> FALSE, v |-> cid.n]
    ELSE LET v2 == IF cid.t = "string" THEN cid.s ELSE <<>>
             conv == Atoi(v2)
         IN  IF conv.err THEN [err |-> TRUE, v |-> 0]
             ELSE IF cid.t = "string" THEN [err |-> FALSE, v |-> conv.v]
             ELSE [err |-> TRUE, v |-> 0]

\* the reply values a handler returns (rpc.MethodActor); ptr: held by pointer
CancelResponse(id) == [type |-> "CancelResponse", id |-> id, ptr |-> FALSE, contents |-> <<>>]
ShutdownResponse(id) == [type |-> "ShutdownResponse", id |-> id, ptr |-> FALSE, contents |-> <<>>]
InitializeResponse(id) == [type |-> "InitializeResponse", id |-> id, ptr |-> TRUE, contents |-> <<>>]
HoverResponse(id, c) == [type |-> "HoverResponse", id |-> id, ptr |-> FALSE, contents |-> c]
NilActor == [type |-> Nil, id |-> 0, ptr |-> FALSE, contents |-> <<>>]

----------------------------------------------------------------------------
(* package parsers (latest revision) *)

StateUnknown == 0
StateInComment == 1

\* strings.Split(s, "\n")
RECURSIVE SplitLines(_)
SplitLines(s) ==
    IF \A i \in 1..Len(s) : s[i] # "\n" THEN <<s>>
    ELSE LET i == CHOOSE j \in 1..Len(s) : s[j] = "\n" /\ \A h \in 1..(j - 1) : s[h] # "\n"
         IN  <<SubSeq(s, 1, i - 1)>> \o SplitLines(SubSeq(s, i + 1, Len(s)))

\* a *string: nil, or a pointer to the string s
NilSource == [nil |-> TRUE, s |-> <<>>]
Ptr(s) == [nil |-> FALSE, s |-> s]

\* what ParseSourcePosition returns: (curVal, state, err), or a panic
Parsed(curVal, state) == [panic |-> FALSE, curVal |-> curVal, state |-> state, err |-> FALSE]
ParsePanic == [panic |-> TRUE, curVal |-> <<>>, state |-> StateUnknown, err |-> FALSE]

\* a parser that splits *source without testing it for nil
ParseSourcePositionDerefNil(source, line) ==
    IF source.nil THEN ParsePanic
    ELSE LET lines == SplitLines(source.s) IN
         IF line >= Len(lines) THEN ParsePanic
         ELSE IF Len(lines[line + 1]) = 0 THEN Parsed(<<>>, StateUnknown)
         ELSE IF HasPrefix(lines[line + 1], <<"/", "/", "g">>)
              THEN Parsed(<<>>, StateInComment)
         ELSE Parsed(<<>>, StateUnknown)

\* parsers.ParseSourcePosition(source, position): lines[position.Line] panics
\* when the line is not an index of lines
ParseSourcePosition(source, line) ==
    IF source.nil THEN Parsed(<<>>, StateUnknown)
    ELSE LET lines == SplitLines(source.s) IN
         IF line >= Len(lines) THEN ParsePanic
         ELSE IF Len(lines[line + 1]) = 0 THEN Parsed(<<>>, StateUnknown)
         ELSE IF HasPrefix(lines[line + 1], <<"/", "/", "g">>)
              THEN Parsed(<<>>, StateInComment)
         ELSE Parsed(<<>>, StateUnknown)

(* package parsers, the revision with the directive pattern: embedRegex is
   (?m)^\s*//\s*go:embed\s+(.+)\s*$|/\*\s*go:embed\s+(.+?)\s*\*/
   applied to one line, which holds no line feed *)

GoEmbed == <<"g", "o", ":", "e", "m", "b", "e", "d">>

\* \s of the regexp syntax
IsSpace(c) == c \in {" ", "\t", "\n", "\r", "\f"}

\* the literal lit stands in s at position i
HasAt(s, i, lit) == i >= 1 /\ i + Len(lit) - 1 <= Len(s) /\ SubSeq(s, i, i + Len(lit) - 1) = lit

\* the position after the longest run of white space of s that starts at i
SkipSpace(s, i) ==
    CHOOSE j \in i..(Len(s) + 1) :
        /\ \A k \in i..(j - 1) : IsSpace(s[k])
        /\ j = Len(s) + 1 \/ ~IsSpace(s[j])

NoMatch == [found |-> FALSE, c1 |-> <<>>, c2 |-> <<>>]

\* ^\s*//\s*go:embed\s+(.+)\s*$ : the white space after go:embed takes all
\* it can and the group runs to the end of the line; when only white space
\* follows go:embed, the group is its last character
MatchLineDirective(s) ==
    LET i1 == SkipSpace(s, 1)
        i2 == SkipSpace(s, i1 + 2)
        i3 == i2 + Len(GoEmbed)
        w == SkipSpace(s, i3)
        from == IF w <= Len(s) THEN w ELSE Len(s)
    IN  IF HasAt(s, i1, <<"/", "/">>) /\ HasAt(s, i2, GoEmbed) /\ i3 <= Len(s)
           /\ from >= i3 + 1
        THEN [found |-> TRUE, c1 |-> SubSeq(s, from, Len(s)), c2 |-> <<>>]
        ELSE NoMatch

\* /\*\s*go:embed\s+(.+?)\s*\*/ matched at position p: the white space after
\* go:embed takes all it can, the group as little as it can
MatchBlockDirectiveAt(s, p) ==
    LET j1 == SkipSpace(s, p + 2)
        j2 == j1 + Len(GoEmbed)
        w == IF j2 <= Len(s) + 1 THEN SkipSpace(s, j2) ELSE j2
        ways == {ab \in (1..Len(s)) \X (1..Len(s)) :
                    /\ j2 + 1 <= ab[1] /\ ab[1] <= w /\ ab[1] <= ab[2]
                    /\ HasAt(s, SkipSpace(s, ab[2] + 1), <<"*", "/">>)}
        best == CHOOSE ab \in ways :
                    \A o \in ways : ab[1] > o[1] \/ (ab[1] = o[1] /\ ab[2] <= o[2])
    IN  IF HasAt(s, p, <<"/", "*">>) /\ HasAt(s, j1, GoEmbed) /\ ways # {}
        THEN [found |-> TRUE, c1 |-> <<>>, c2 |-> SubSeq(s, best[1], best[2])]
        ELSE NoMatch

\* embedRegex.FindStringSubmatch(line): the leftmost match, the first
\* alternative before the second
FindStringSubmatch(s) ==
    LET at == {p \in 1..Len(s) : MatchBlockDirectiveAt(s, p).found}
    IN  IF MatchLineDirective(s).found THEN MatchLineDirective(s)
        ELSE IF at = {} THEN NoMatch
        ELSE MatchBlockDirectiveAt(s, CHOOSE p \in at : \A q \in at : p <= q)

\* parsers.ParseSourcePosition(source, position) of that revision: the line
\* is lines[position.Line-1], position.Line being a uint32
ParseSourcePositionRegex(source, line) ==
    IF source.nil THEN Parsed(<<>>, StateUnknown)
    ELSE LET lines == SplitLines(source.s) IN
         IF line = 0 \/ line - 1 >= Len(lines) THEN ParsePanic
         ELSE LET l == lines[line] IN
              IF Len(l) = 0 THEN Parsed(<<>>, StateUnknown)
              ELSE IF HasPrefix(l, <<"/", "/">>)
                   THEN Parsed(FindStringSubmatch(l).c1, StateInComment)
              ELSE IF HasPrefix(l, <<"/", "*">>)
                   THEN Parsed(FindStringSubmatch(l).c2, StateInComment)
              ELSE Parsed(<<>>, StateUnknown)

----------------------------------------------------------------------------
(* package server: lspHandler.handle.  What one call does up to its return *)
(* or its first suspension point: k = "return" (res, err), "panic",        *)
(* "exit" (os.Exit), "readFile" (inside os.ReadFile), "hover" (in the      *)
(* hover select), "block" (blocked for ever inside getEmbbeddables).       *)

NoErr == ""
Eff(k, res, err, docs) == [k |-> k, res |-> res, err |-> err, docs |-> docs]
Return(res, docs) == Eff("return", res, NoErr, docs)
Fail(err, docs) == Eff("return", NilActor, err, docs)
Panic(docs) == Eff("panic", NilActor, NoErr, docs)

\* rpc.Decode[T] / json.Unmarshal of the body into the method's shape
DecodeErr == "decode failed"

\* case methods.MethodCancelRequest
HandleCancelRequest(f, docs, cm) ==
    IF ~f.ok THEN Fail(DecodeErr, docs)
    ELSE LET id == ParseCancelParams(f.cid) IN
         IF id.err THEN Fail("failed to parse cancel params", docs)
         ELSE IF MapGet(cm, id.v).panic THEN Panic(docs)
         \* an entry found is invoked: (*c)(); nothing adds an entry
         ELSE Return(CancelResponse(id.v), docs)

\* case methods.MethodNotificationExit
HandleExit(f, docs, cm) ==
    IF MapValues(cm).panic THEN Panic(docs) ELSE Eff("exit", NilActor, NoErr, docs)

\* a didClose that leaves the entry in the store
HandleDidCloseKeep(f, docs) ==
    IF ~f.ok THEN Fail(DecodeErr, docs) ELSE Return(NilActor, docs)

\* case methods.NotificationTextDocumentDidClose
HandleDidClose(f, docs) ==
    IF ~f.ok THEN Fail(DecodeErr, docs) ELSE Return(NilActor, MapDelete(docs, f.uri))

\* case methods.MethodNotificationTextDocumentDidSave, up to os.ReadFile
HandleDidSave(f, docs) ==
    IF ~f.ok THEN Fail(DecodeErr, docs) ELSE Eff("readFile", NilActor, NoErr, docs)

\* case methods.MethodShutdown
HandleShutdown(f, docs, cm) ==
    IF ~f.ok THEN Fail(DecodeErr, docs)
    ELSE IF MapValues(cm).panic THEN Panic(docs)
    ELSE Return(ShutdownResponse(f.id), docs)

\* case methods.NotificationMethodTextDocumentDidChange
HandleDidChange(f, docs) ==
    IF ~f.ok THEN Fail(DecodeErr, docs)
    ELSE IF Len(f.changes) = 0 THEN Panic(docs)
    ELSE Return(NilActor, MapSet(docs, f.uri, f.changes[1]))

\* case methods.MethodInitialize
HandleInitialize(f, docs) ==
    IF ~f.ok THEN Fail(DecodeErr, docs) ELSE Return(InitializeResponse(f.id), docs)

\* a didOpen that goes on with the zero request when the body does not decode
HandleDidOpenIgnoreErr(f, docs) ==
    IF ~HasSuffix(f.uri, GoSuffix) THEN Return(NilActor, docs)
    ELSE Return(NilActor, MapSet(docs, f.uri, f.text))

\* case methods.MethodRequestTextDocumentDidOpen
HandleDidOpen(f, docs) ==
    IF ~f.ok THEN Fail(DecodeErr, docs)
    ELSE IF ~HasSuffix(f.uri, GoSuffix) THEN Return(NilActor, docs)
    ELSE Return(NilActor, MapSet(docs, f.uri, f.text))

\* case methods.MethodRequestTextDocumentDefinition / CodeAction: stubs
HandleStub(f, docs) ==
    IF ~f.ok THEN Fail(DecodeErr, docs) ELSE Return(NilActor, docs)

\* case methods.MethodRequestTextDocumentCompletion and
\* handleTextDocumentCompletion: getEmbbeddables sends on an unbuffered
\* channel before it returns it, so the call never returns
HandleCompletion(f, docs) ==
    IF ~f.ok THEN Fail(DecodeErr, docs)
    ELSE LET doc == MapGet(docs, f.uri) IN
         IF ~doc.ok THEN Fail("document not found", docs)
         ELSE LET p == ParseSourcePosition(Ptr(doc.val), f.line) IN
              IF p.panic THEN Panic(docs)
              ELSE IF p.state = StateUnknown THEN Return(NilActor, docs)
              ELSE Eff("block", NilActor, NoErr, docs)

\* case methods.MethodRequestTextDocumentHover, up to the select of
\* handleTextDocumentHover
HandleHover(f, docs) ==
    IF ~f.ok THEN Fail(DecodeErr, docs) ELSE Eff("hover", NilActor, NoErr, docs)

\* lspHandler.handle: the switch on the method
Handle_(f, docs, cm) ==
    CASE f.m = MCancel -> HandleCancelRequest(f, docs, cm)
      [] f.m = MExit -> HandleExit(f, docs, cm)
      [] f.m = MDidClose -> HandleDidClose(f, docs)
      [] f.m \in {MInitialized, MWillSave} -> Return(NilActor, docs)
      [] f.m = MDidSave -> HandleDidSave(f, docs)
      [] f.m = MShutdown -> HandleShutdown(f, docs, cm)
      [] f.m = MDidChange -> HandleDidChange(f, docs)
      [] f.m = MInitialize -> HandleInitialize(f, docs)
      [] f.m = MDidOpen -> HandleDidOpen(f, docs)
      [] f.m \in {MDefinition, MCodeAction} -> HandleStub(f, docs)
      [] f.m = MCompletion -> HandleCompletion(f, docs)
      [] f.m = MHover -> HandleHover(f, docs)
      [] OTHER -> Fail("unknown method", docs)

----------------------------------------------------------------------------
(* package server: the directory the hover handler reads *)

\* os.ReadDir of the document's directory, sorted by name
FooTxt == <<"f", "o", "o", ".", "t", "x", "t">>
DirEntries ==
    << [name |-> <<"a">> \o FooTxt, isDir |-> FALSE, data |-> <<"h">>],
       [name |-> <<"d">>, isDir |-> TRUE, data |-> <<>>],
       [name |-> FooTxt, isDir |-> FALSE, data |-> <<"f">>] >>

FsOutcomes == {"ok", "readDirErr", "readFileErr"}

\* relativeReadFile(uri, embedPath): the data of the first file whose name
\* ends in embedPath
RelativeReadFile(embedPath, fs) ==
    LET hits == {i \in 1..Len(DirEntries) :
                    ~DirEntries[i].isDir /\ HasSuffix(DirEntries[i].name, embedPath)}
    IN  IF fs = "readDirErr" THEN [err |-> "error reading directory", data |-> <<>>]
        ELSE IF hits = {} THEN [err |-> "file not found", data |-> <<>>]
        ELSE IF fs = "readFileErr" THEN [err |-> "error reading file", data |-> <<>>]
        ELSE [err |-> NoErr,
              data |-> DirEntries[CHOOSE i \in hits : \A j \in hits : i <= j].data]

\* the goroutine of getHoverResp up to relativeReadFile: k = "panic",
\* "sendErr" (err, NoErr for the nil it sends on an Unknown position) or
\* "read" (about to read the directory for curVal)
GetHoverResp(f, docs) ==
    LET doc == MapGet(docs, f.uri) IN
    IF ~doc.ok THEN [k |-> "sendErr", err |-> "document not found", curVal |-> <<>>]
    ELSE LET p == ParseSourcePosition(Ptr(doc.val), f.line) IN
         IF p.panic THEN [k |-> "panic", err |-> NoErr, curVal |-> <<>>]
         ELSE IF p.state = StateUnknown THEN [k |-> "sendErr", err |-> NoErr, curVal |-> <<>>]
         ELSE [k |-> "read", err |-> NoErr, curVal |-> p.curVal]

----------------------------------------------------------------------------
(* package rpc: Encode.  A Go string or byte slice is a sequence of bytes; *)
(* an ASCII byte is written as its character, another byte as the two hex  *)
(* digits of its value.                                                    *)

\* the longest string field of a message passed to Encode, in characters
MaxStrLen == 2
\* the identifiers of the messages passed to Encode are 0..MaxEncId
MaxEncId == 2

\* the characters a string field is made of, each the bytes of its UTF-8 form
EncChars == {<<"a">>, <<"\"">>, <<"\\">>, <<"\n">>, <<"<">>, <<"C3", "A9">>}

RECURSIVE StringsUpTo(_)
StringsUpTo(len) ==
    IF len = 0 THEN {<<>>}
    ELSE LET shorter == StringsUpTo(len - 1)
         IN  shorter \cup {s \o c : s \in shorter, c \in EncChars}

\* the messages handed to Encode: the reply shapes of lsp/responses.go, and
\* one value encoding/json cannot serialize
EncMessages ==
    {CancelResponse(i) : i \in 0..MaxEncId}
        \cup {ShutdownResponse(i) : i \in 0..MaxEncId}
        \cup {InitializeResponse(i) : i \in 0..MaxEncId}
        \cup {HoverResponse(i, c) : i \in 0..MaxEncId, c \in StringsUpTo(MaxStrLen)}
        \cup {[type |-> "Unserializable", id |-> 0, ptr |-> FALSE, contents |-> <<>>]}

\* fmt's %d of a non-negative int
RECURSIVE Itoa(_)
Itoa(i) == IF i < 10 THEN <<Digits[i + 1]>> ELSE Itoa(i \div 10) \o <<Digits[(i % 10) + 1]>>

\* encoding/json's string encoding with SetEscapeHTML(false): the quote, the
\* backslash and the control characters are escaped, every other byte is copied
JSONEscape(b) ==
    CASE b = "\"" -> <<"\\", "\"">>
      [] b = "\\" -> <<"\\", "\\">>
      [] b = "\n" -> <<"\\", "n">>
      [] OTHER -> <<b>>

RECURSIVE JSONEscapeAll(_)
JSONEscapeAll(s) == IF s = <<>> THEN <<>> ELSE JSONEscape(Head(s)) \o JSONEscapeAll(Tail(s))

JSONString(s) == <<"\"">> \o JSONEscapeAll(s) \o <<"\"">>

JSONKey(k) == <<"\"">> \o k \o <<"\"", ":">>

KJsonrpc == <<"j", "s", "o", "n", "r", "p", "c">>
KId == <<"i", "d">>
KResult == <<"r", "e", "s", "u", "l", "t">>
KError == <<"e", "r", "r", "o", "r">>
KContents == <<"c", "o", "n", "t", "e", "n", "t", "s">>
KMethod == <<"m", "e", "t", "h", "o", "d">>
KCapabilities == <<"c", "a", "p", "a", "b", "i", "l", "i", "t", "i", "e", "s">>
KCompletionProvider ==
    <<"c", "o", "m", "p", "l", "e", "t", "i", "o", "n", "P", "r", "o", "v", "i", "d", "e", "r">>
KHoverProvider == <<"h", "o", "v", "e", "r", "P", "r", "o", "v", "i", "d", "e", "r">>
KDefinitionProvider ==
    <<"d", "e", "f", "i", "n", "i", "t", "i", "o", "n", "P", "r", "o", "v", "i", "d", "e", "r">>
JTrue == <<"t", "r", "u", "e">>
JNull == <<"n", "u", "l", "l">>
\* lsp.RPCVersion
RPCVersion == <<"2", ".", "0">>

\* lsp.Response: `json:"jsonrpc"` and `json:"id,omitempty"`
JSONResponseFields(id) ==
    JSONKey(KJsonrpc) \o JSONString(RPCVersion)
        \o (IF id = 0 THEN <<>> ELSE <<",">> \o JSONKey(KId) \o Itoa(id))

\* NewInitializeResponse: the capabilities, of which the model keeps the
\* three providers the server implements (&CompletionOptions{}, true, true)
JSONCapabilities ==
    <<"{">> \o JSONKey(KCompletionProvider) \o <<"{", "}", ",">>
        \o JSONKey(KHoverProvider) \o JTrue \o <<",">>
        \o JSONKey(KDefinitionProvider) \o JTrue \o <<"}">>

\* json.Marshal of a message, by its Go type
JSONMarshal(msg) ==
    CASE msg.type = "CancelResponse" ->
            <<"{">> \o JSONKey(KJsonrpc) \o JSONString(RPCVersion) \o <<",">>
                \o JSONKey(KId) \o Itoa(msg.id) \o <<"}">>
      [] msg.type = "ShutdownResponse" ->
            <<"{">> \o JSONResponseFields(msg.id) \o <<",">> \o JSONKey(KResult) \o JNull
                \o <<",">> \o JSONKey(KError) \o JNull \o <<"}">>
      [] msg.type = "HoverResponse" ->
            <<"{">> \o JSONResponseFields(msg.id) \o <<",">> \o JSONKey(KResult)
                \o <<"{">> \o JSONKey(KContents) \o JSONString(msg.contents) \o <<"}", "}">>
      [] msg.type = "InitializeResponse" ->
            <<"{">> \o JSONResponseFields(msg.id) \o <<",">> \o JSONKey(KResult)
                \o <<"{">> \o JSONKey(KCapabilities) \o JSONCapabilities \o <<"}", "}">>
      [] OTHER -> <<>>

\* json.Encoder.Encode(msg) into the buffer: the JSON value, then a newline
EncoderEncode(msg) ==
    IF msg.type = "Unserializable" THEN [err |-> TRUE, buf |-> <<>>]
    ELSE [err |-> FALSE, buf |-> JSONMarshal(msg) \o <<"\n">>]

ContentLength ==
    <<"C", "o", "n", "t", "e", "n", "t", "-", "L", "e", "n", "g", "t", "h", ":", " ">>
CRLFCRLF == <<"\r", "\n", "\r", "\n">>

\* a header ended by bare line feeds
SprintfLF(len, body) == ContentLength \o Itoa(len) \o <<"\n", "\n">> \o body

\* fmt.Sprintf("Content-Length: %d\r\n\r\n%s", len(body), string(body))
Sprintf(len, body) == ContentLength \o Itoa(len) \o CRLFCRLF \o body

\* Encode with the commented-out TrimSuffix restored after len(body) was taken
EncodeTrimAfterLen(ctxDone, msg) ==
    IF ctxDone THEN [err |-> TRUE, s |-> <<>>]
    ELSE LET e == EncoderEncode(msg) IN
         IF e.err THEN [err |-> TRUE, s |-> <<>>]
         ELSE [err |-> FALSE, s |-> Sprintf(Len(e.buf), SubSeq(e.buf, 1, Len(e.buf) - 1))]

\* rpc.Encode(ctx, msg)
Encode(ctxDone, msg) ==
    IF ctxDone THEN [err |-> TRUE, s |-> <<>>]
    ELSE LET e == EncoderEncode(msg) IN
         IF e.err THEN [err |-> TRUE, s |-> <<>>]
         ELSE [err |-> FALSE, s |-> Sprintf(Len(e.buf), e.buf)]

----------------------------------------------------------------------------
(* package safe under concurrent callers: the state *)

\* goroutines calling the store's methods
MaxThreads == 2
\* calls each of them makes
MaxCalls == 2

Threads == 1..MaxThreads
MapOps == {"Get", "Set", "Delete", "Len", "Clear", "Values"}
\* the methods that take the lock exclusively
Writers == {"Set", "Delete", "Clear"}
\* the methods that start with a log.Debugf
Logging == {"Get", "Set", "Delete", "Clear"}

NoRet == [ok |-> FALSE, val |-> <<>>, len |-> 0]
IdleThread == [op |-> "none", key |-> <<>>, val |-> <<>>, pc |-> "idle", calls |-> 0,
               ret |-> NoRet]

\* bufio.NewScanner on an input that holds nothing
ScannerIdle == [stream |-> <<>>, fed |-> 0, buf |-> <<>>, toks |-> <<>>, need |-> FALSE,
                eof |-> FALSE, done |-> FALSE]

\* no call of the parser
ParseIdle == [source |-> NilSource, line |-> 0, pc |-> "idle", rev |-> "", ret |-> ParsePanic]

\* sync.RWMutex, zero value
Unlocked == [readers |-> 0, writer |-> FALSE]

LibIdle ==
    /\ store = NewSafeMap(URIs)
    /\ mu = Unlocked
    /\ thr = [t \in Threads |-> IdleThread]
    /\ mlog = <<>>
    /\ snaps = <<>>
    /\ scn = ScannerIdle
    /\ prs = ParseIdle

----------------------------------------------------------------------------
(* The state machine *)

NoTask == [pc |-> "none", f |-> BadFrame, res |-> NilActor, err |-> NoErr,
           g2 |-> "none", g2err |-> NoErr, g2data |-> <<>>]

\* a goroutine of Handle that has returned
Done == [NoTask EXCEPT !.pc = "done"]

HistEntry(f) == [m |-> f.m, outcome |-> "Pending", why |-> "", replies |-> 0, t0 |-> 0]

\* NewLSPHandler: &lspHandler{documents: documents}; cancelMap keeps its
\* zero value, the nil pointer
NewLSPHandler == NilPtr

\* no call of Encode under way
NoCall == [ctxDone |-> FALSE, msg |-> NilActor]
Pending == [pc |-> "pending", err |-> FALSE, s |-> <<>>]

Init ==
    /\ proc = "running"
    /\ loop = "scan"
    /\ n = 0
    /\ cur = BadFrame
    /\ resp = NilActor
    /\ now = 0
    /\ deadline = 0
    /\ tasks = [k \in 1..MaxFrames |-> NoTask]
    /\ documents = NewSafeMap(URIs)
    /\ cancelMap = NewLSPHandler
    /\ out = <<>>
    /\ hist = <<>>
    /\ encIn = NoCall
    /\ encOut = Pending
    /\ LibIdle

\* an isNull that tests only for a nil pointer inside the interface
IsNullPtrOnly(r) == r.ptr /\ r.type = Nil

\* isNull(resp) of the read loop
IsNull(r) == IF r.type = Nil THEN TRUE ELSE FALSE

Resolve(outcome, why) == [hist EXCEPT ![n].outcome = outcome, ![n].why = why]

\* for scanner.Scan() { decoded, err := rpc.DecodeMessage(...); if err != nil { return err }
ScanFrom(frames) ==
    /\ proc = "running" /\ loop = "scan" /\ n < MaxFrames
    /\ \E f \in frames :
        /\ n' = n + 1
        /\ cur' = f
        /\ hist' = Append(hist, IF f.wf THEN HistEntry(f)
                                ELSE [HistEntry(f) EXCEPT !.outcome = "DecodeError"])
        /\ IF f.wf THEN /\ loop' = "dispatch"
                        /\ proc' = proc
           ELSE /\ loop' = "done"
                /\ proc' = "returnedErr"
    /\ UNCHANGED <<resp, now, deadline, tasks, documents, cancelMap, out, encIn, encOut, lib>>

Scan == ScanFrom(Frames)
ScanLive == ScanFrom(LiveFrames)

\* scanner.Scan() returns false at the end of the input: return nil
ScanEOF ==
    /\ proc = "running" /\ loop = "scan"
    /\ proc' = "eof"
    /\ loop' = "done"
    /\ UNCHANGED <<n, cur, resp, now, deadline, tasks, documents, cancelMap, out, hist, encIn, encOut, lib>>

\* a deadline counted from the start of the server, not of the dispatch
WithTimeoutFromStart(t) == Deadline

\* context.WithTimeout(ctx, time.Second*1) at instant t: the deadline
WithTimeout(t) == t + Deadline

\* Handle: the channels, the context with its deadline and the go statement
HandleStart ==
    /\ proc = "running" /\ loop = "dispatch"
    /\ tasks' = [tasks EXCEPT ![n] = [NoTask EXCEPT !.pc = "start", !.f = cur]]
    /\ deadline' = WithTimeout(now)
    /\ hist' = [hist EXCEPT ![n].t0 = now]
    /\ loop' = "select"
    /\ UNCHANGED <<proc, n, cur, resp, now, documents, cancelMap, out, encIn, encOut, lib>>

\* the deadline of the current message's context has passed
DeadlinePassed == now >= deadline

\* the context of task k is done: its deadline has passed, or Handle has
\* returned (defer cancel())
CtxDone(k) == ~(k = n /\ loop = "select") \/ DeadlinePassed

\* some goroutine can take a step without waiting for a file, a directory or
\* the clock
Runnable ==
    \/ loop \in {"dispatch", "write"}
    \/ \E k \in 1..MaxFrames :
        \/ tasks[k].pc = "start"
        \/ tasks[k].g2 = "run"
        \/ tasks[k].pc = "hover" /\ (tasks[k].g2 \in {"sendErr", "sendResp"} \/ CtxDone(k))
        \/ k = n /\ loop = "select" /\ tasks[k].pc \in {"sendResult", "sendErr"}

\* time passes while Handle waits in its select.  A goroutine that can run
\* runs well within a tick, so the clock advances only when every goroutine
\* waits: for a file or directory read, on a channel, or for the deadline.
Tick ==
    /\ proc = "running" /\ loop = "select" /\ ~DeadlinePassed /\ ~Runnable
    /\ now' = now + 1
    /\ UNCHANGED <<proc, loop, n, cur, resp, deadline, tasks, documents, cancelMap, out, hist, encIn, encOut, lib>>

\* Handle: case <-ctx.Done(); the read loop logs the error and continues
HandleCtxDone ==
    /\ proc = "running" /\ loop = "select" /\ DeadlinePassed
    /\ hist' = Resolve("Failed", "deadline")
    /\ loop' = "scan"
    /\ UNCHANGED <<proc, n, cur, resp, now, deadline, tasks, documents, cancelMap, out, encIn, encOut, lib>>

\* a read loop that answers a handler's error with an error reply
HandleRecvErrReply ==
    /\ proc = "running" /\ loop = "select" /\ tasks[n].pc = "sendErr"
    /\ tasks' = [tasks EXCEPT ![n] = Done]
    /\ out' = Append(out, [frame |-> n, resp |-> NilActor])
    /\ hist' = [Resolve("Failed", "error") EXCEPT ![n].replies = @ + 1]
    /\ loop' = "scan"
    /\ UNCHANGED <<proc, n, cur, resp, now, deadline, documents, cancelMap, encIn, encOut, lib>>

\* Handle: case err := <-errCh; the read loop logs the error and continues
HandleRecvErr ==
    /\ proc = "running" /\ loop = "select" /\ tasks[n].pc = "sendErr"
    /\ tasks' = [tasks EXCEPT ![n] = Done]
    /\ hist' = Resolve("Failed", "error")
    /\ loop' = "scan"
    /\ UNCHANGED <<proc, n, cur, resp, now, deadline, documents, cancelMap, out, encIn, encOut, lib>>

\* Handle: case result := <-resultCh; the read loop tests isNull(resp)
HandleRecvResult ==
    /\ proc = "running" /\ loop = "select" /\ tasks[n].pc = "sendResult"
    /\ tasks' = [tasks EXCEPT ![n] = Done]
    /\ resp' = tasks[n].res
    /\ IF IsNull(tasks[n].res)
       THEN /\ hist' = Resolve("Suppressed", "result")
            /\ loop' = "scan"
       ELSE /\ hist' = hist
            /\ loop' = "write"
    /\ UNCHANGED <<proc, n, cur, now, deadline, documents, cancelMap, out, encIn, encOut, lib>>

\* a read loop that writes the reply again instead of reading on
WriteResponseResend ==
    /\ proc = "running" /\ loop = "write"
    /\ out' = Append(out, [frame |-> n, resp |-> resp])
    /\ hist' = [Resolve("Replied", "result") EXCEPT ![n].replies = @ + 1]
    /\ loop' = IF hist[n].replies = 0 THEN "write" ELSE "scan"
    /\ UNCHANGED <<proc, n, cur, resp, now, deadline, tasks, documents, cancelMap, encIn, encOut, lib>>

\* rpcWriter.WriteResponse(innerCtx, resp); a failed write is logged
WriteResponse ==
    /\ proc = "running" /\ loop = "write"
    /\ \E wrote \in BOOLEAN :
        IF wrote
        THEN /\ out' = Append(out, [frame |-> n, resp |-> resp])
             /\ hist' = [Resolve("Replied", "result") EXCEPT ![n].replies = @ + 1]
        ELSE /\ out' = out
             /\ hist' = Resolve("WriteFailed", "result")
    /\ loop' = "scan"
    /\ UNCHANGED <<proc, n, cur, resp, now, deadline, tasks, documents, cancelMap, encIn, encOut, lib>>

\* the goroutine of Handle: result, err := l.handle(ctx, msg), run to its
\* return or to its first suspension point
TaskRun(k) ==
    /\ proc = "running" /\ tasks[k].pc = "start"
    /\ LET e == Handle_(tasks[k].f, documents, cancelMap) IN
        /\ documents' = e.docs
        /\ proc' = CASE e.k = "panic" -> "panicked"
                     [] e.k = "exit" -> "exited"
                     [] OTHER -> proc
        /\ tasks' = [tasks EXCEPT ![k] =
                CASE e.k = "return" /\ e.err = NoErr ->
                        [@ EXCEPT !.pc = "sendResult", !.res = e.res]
                  [] e.k = "return" /\ e.err # NoErr ->
                        [@ EXCEPT !.pc = "sendErr", !.err = e.err]
                  [] e.k = "hover" -> [@ EXCEPT !.pc = "hover", !.g2 = "run"]
                  [] e.k \in {"readFile", "block"} -> [@ EXCEPT !.pc = e.k]
                  [] OTHER -> Done]
    /\ UNCHANGED <<loop, n, cur, resp, now, deadline, cancelMap, out, hist, encIn, encOut, lib>>

FileReads == {[err |-> TRUE, data |-> <<>>]} \cup {[err |-> FALSE, data |-> t] : t \in Texts}

\* didSave: os.ReadFile returns; on success l.documents.Set(uri, string(read))
TaskReadFile(k) ==
    /\ proc = "running" /\ tasks[k].pc = "readFile"
    /\ \E r \in FileReads :
        IF r.err
        THEN /\ tasks' = [tasks EXCEPT ![k].pc = "sendErr", ![k].err = "failed to read file"]
             /\ documents' = documents
        ELSE /\ tasks' = [tasks EXCEPT ![k].pc = "sendResult", ![k].res = NilActor]
             /\ documents' = MapSet(documents, tasks[k].f.uri, r.data)
    /\ UNCHANGED <<proc, loop, n, cur, resp, now, deadline, cancelMap, out, hist, encIn, encOut, lib>>

\* the goroutine of getHoverResp runs up to relativeReadFile
HoverG2Run(k) ==
    /\ proc = "running" /\ tasks[k].g2 = "run"
    /\ LET r == GetHoverResp(tasks[k].f, documents) IN
        /\ proc' = IF r.k = "panic" THEN "panicked" ELSE proc
        /\ tasks' = [tasks EXCEPT ![k].g2 = IF r.k = "panic" THEN "done" ELSE r.k,
                                  ![k].g2err = r.err, ![k].g2data = r.curVal]
    /\ UNCHANGED <<loop, n, cur, resp, now, deadline, documents, cancelMap, out, hist, encIn, encOut, lib>>

\* the goroutine of getHoverResp: relativeReadFile returns
HoverG2Read(k) ==
    /\ proc = "running" /\ tasks[k].g2 = "read"
    /\ \E fs \in FsOutcomes :
        LET r == RelativeReadFile(tasks[k].g2data, fs) IN
        tasks' = [tasks EXCEPT ![k].g2 = IF r.err # NoErr THEN "sendErr" ELSE "sendResp",
                               ![k].g2err = r.err, ![k].g2data = r.data]
    /\ UNCHANGED <<proc, loop, n, cur, resp, now, deadline, documents, cancelMap, out, hist, encIn, encOut, lib>>

\* handleTextDocumentHover: case <-ctx.Done()
HoverCtxDone(k) ==
    /\ proc = "running" /\ tasks[k].pc = "hover" /\ CtxDone(k)
    /\ tasks' = [tasks EXCEPT ![k].pc = "sendErr", ![k].err = "context cancelled"]
    /\ UNCHANGED <<proc, loop, n, cur, resp, now, deadline, documents, cancelMap, out, hist, encIn, encOut, lib>>

\* handleTextDocumentHover: case res := <-l.getHoverResp(request, errCh)
HoverRecvResp(k) ==
    /\ proc = "running" /\ tasks[k].pc = "hover" /\ tasks[k].g2 = "sendResp"
    /\ tasks' = [tasks EXCEPT ![k].pc = "sendResult", ![k].g2 = "done",
                              ![k].res = HoverResponse(tasks[k].f.id, tasks[k].g2data)]
    /\ UNCHANGED <<proc, loop, n, cur, resp, now, deadline, documents, cancelMap, out, hist, encIn, encOut, lib>>

\* handleTextDocumentHover: case err := <-errCh; a nil err makes the
\* goroutine of Handle send the nil result on resultCh
HoverRecvErr(k) ==
    /\ proc = "running" /\ tasks[k].pc = "hover" /\ tasks[k].g2 = "sendErr"
    /\ tasks' = [tasks EXCEPT ![k].pc = IF tasks[k].g2err = NoErr THEN "sendResult" ELSE "sendErr",
                              ![k].g2 = "done",
                              ![k].res = NilActor,
                              ![k].err = tasks[k].g2err]
    /\ UNCHANGED <<proc, loop, n, cur, resp, now, deadline, documents, cancelMap, out, hist, encIn, encOut, lib>>

Handling ==
    \/ ScanEOF
    \/ HandleStart
    \/ Tick
    \/ HandleCtxDone
    \/ HandleRecvErr
    \/ HandleRecvResult
    \/ WriteResponse
    \/ \E k \in 1..MaxFrames : TaskRun(k)
    \/ \E k \in 1..MaxFrames : TaskReadFile(k)
    \/ \E k \in 1..MaxFrames : HoverG2Run(k)
    \/ \E k \in 1..MaxFrames : HoverG2Read(k)
    \/ \E k \in 1..MaxFrames : HoverCtxDone(k)
    \/ \E k \in 1..MaxFrames : HoverRecvResp(k)
    \/ \E k \in 1..MaxFrames : HoverRecvErr(k)

Next == Scan \/ Handling

NextLive == ScanLive \/ Handling

Spec == Init /\ [][Next]_vars

\* Scheduling: the clock runs, a ready select of Handle proceeds, and the
\* read loop and every runnable goroutine take their steps.  Nothing obliges
\* the client to send a frame, or a file or directory read to return.
Fairness ==
    /\ WF_vars(Tick)
    /\ WF_vars(HandleCtxDone \/ HandleRecvErr \/ HandleRecvResult)
    /\ WF_vars(HandleStart)
    /\ WF_vars(WriteResponse)
    /\ \A k \in 1..MaxFrames :
        /\ WF_vars(TaskRun(k))
        /\ WF_vars(HoverG2Run(k))
        /\ WF_vars(HoverCtxDone(k) \/ HoverRecvResp(k) \/ HoverRecvErr(k))

SpecLive == Init /\ [][NextLive]_vars /\ Fairness

----------------------------------------------------------------------------
(* rpc.Encode on its own: one call on any context and message *)

InitEncode ==
    /\ proc = "running"
    /\ loop = "scan"
    /\ n = 0
    /\ cur = BadFrame
    /\ resp = NilActor
    /\ now = 0
    /\ deadline = 0
    /\ tasks = [k \in 1..MaxFrames |-> NoTask]
    /\ documents = NewSafeMap(URIs)
    /\ cancelMap = NewLSPHandler
    /\ out = <<>>
    /\ hist = <<>>
    /\ encIn \in [ctxDone : BOOLEAN, msg : EncMessages]
    /\ encOut = Pending
    /\ LibIdle

EncodeCall ==
    /\ encOut.pc = "pending"
    /\ LET r == Encode(encIn.ctxDone, encIn.msg)
       IN  encOut' = [pc |-> "returned", err |-> r.err, s |-> r.s]
    /\ UNCHANGED <<srv, encIn, lib>>

NextEncode == EncodeCall

SpecEncode == InitEncode /\ [][NextEncode]_vars

----------------------------------------------------------------------------
(* package safe under concurrent callers: each goroutine calls methods of  *)
(* one shared store.  A call logs (where the method does), takes the lock, *)
(* runs its body, and releases the lock on return (defer).                 *)

\* a goroutine calls a method of the store
MapCall(t) ==
    /\ thr[t].pc = "idle" /\ thr[t].calls < MaxCalls
    /\ \E op \in MapOps, key \in URIs, val \in Texts :
        thr' = [thr EXCEPT ![t] =
                  [op |-> op,
                   key |-> IF op \in {"Get", "Set", "Delete"} THEN key ELSE <<>>,
                   val |-> IF op = "Set" THEN val ELSE <<>>,
                   pc |-> IF op \in Logging THEN "log" ELSE "lock",
                   calls |-> thr[t].calls + 1,
                   ret |-> NoRet]]
    /\ UNCHANGED <<srv, encIn, encOut, store, mu, mlog, snaps, scn, prs>>

\* log.Debugf(...): its arguments are evaluated before the lock is taken;
\* Delete and Clear pass reflect.TypeOf(sm.m), a read of the field sm.m
MapLog(t) ==
    /\ thr[t].pc = "log"
    /\ thr' = [thr EXCEPT ![t].pc = "lock"]
    /\ UNCHANGED <<srv, encIn, encOut, store, mu, mlog, snaps, scn, prs>>

\* sm.mu.RLock() / sm.mu.Lock()
MapLock(t) ==
    /\ thr[t].pc = "lock"
    /\ IF thr[t].op \in Writers
       THEN /\ ~mu.writer /\ mu.readers = 0
            /\ mu' = [mu EXCEPT !.writer = TRUE]
       ELSE /\ ~mu.writer
            /\ mu' = [mu EXCEPT !.readers = @ + 1]
    /\ thr' = [thr EXCEPT ![t].pc = "body"]
    /\ UNCHANGED <<srv, encIn, encOut, store, mlog, snaps, scn, prs>>

\* the goroutines other than t that are inside a call
Busy(t) == {u \in Threads \ {t} : thr[u].pc # "idle"}

\* the body of the method, with the lock held
MapBody(t) ==
    /\ thr[t].pc = "body"
    /\ LET c == thr[t] IN
        /\ store' = CASE c.op = "Set" -> MapSet(store, c.key, c.val)
                      [] c.op = "Delete" -> MapDelete(store, c.key)
                      [] c.op = "Clear" -> MapClear(store)
                      [] OTHER -> store
        /\ mlog' = IF c.op \in Writers
                   THEN Append(mlog, [op |-> c.op, key |-> c.key, val |-> c.val,
                                      busy |-> Busy(t)])
                   ELSE mlog
        /\ \E slice \in (IF c.op = "Values" THEN MapValues(store).slices ELSE {<<>>}) :
            /\ snaps' = IF c.op = "Values"
                        THEN Append(snaps, [view |-> MapValues(store).view, vals |-> slice,
                                            at |-> store.m])
                        ELSE snaps
            /\ thr' = [thr EXCEPT ![t].pc = "unlock",
                                  ![t].ret =
                        CASE c.op = "Get" -> [ok |-> MapGet(store, c.key).ok,
                                              val |-> MapGet(store, c.key).val, len |-> 0]
                          [] c.op = "Len" -> [NoRet EXCEPT !.len = MapLen(store)]
                          [] c.op = "Values" -> [NoRet EXCEPT !.len = Len(slice)]
                          [] OTHER -> NoRet]
    /\ UNCHANGED <<srv, encIn, encOut, mu, scn, prs>>

\* defer sm.mu.RUnlock() / sm.mu.Unlock(), and the return
MapUnlock(t) ==
    /\ thr[t].pc = "unlock"
    /\ mu' = IF thr[t].op \in Writers THEN [mu EXCEPT !.writer = FALSE]
             ELSE [mu EXCEPT !.readers = @ - 1]
    /\ thr' = [thr EXCEPT ![t].pc = "idle"]
    /\ UNCHANGED <<srv, encIn, encOut, store, mlog, snaps, scn, prs>>

NextMap ==
    \/ \E t \in Threads : MapCall(t)
    \/ \E t \in Threads : MapLog(t)
    \/ \E t \in Threads : MapLock(t)
    \/ \E t \in Threads : MapBody(t)
    \/ \E t \in Threads : MapUnlock(t)

SpecMap == Init /\ [][NextMap]_vars

----------------------------------------------------------------------------
(* Reading a frame back, independently of how Encode built it *)

EncodeOk == encOut.pc = "returned" /\ ~encOut.err

\* the first position at which sub occurs in s, 0 when it does not
IndexOf(s, sub) ==
    LET at == {i \in 1..(Len(s) - Len(sub) + 1) : SubSeq(s, i, i + Len(sub) - 1) = sub}
    IN  IF at = {} THEN 0 ELSE CHOOSE i \in at : \A j \in at : i <= j

\* the digits between "Content-Length: " and the first blank line
FrameDigits(s) == SubSeq(s, Len(ContentLength) + 1, IndexOf(s, CRLFCRLF) - 1)
\* the bytes after the first blank line
FrameBody(s) == SubSeq(s, IndexOf(s, CRLFCRLF) + Len(CRLFCRLF), Len(s))

\* C1: whenever Encode succeeds, its result is "Content-Length: <n>\r\n\r\n"
\* followed by exactly n bytes, n in decimal, and those n bytes are the body
\* the JSON encoder serialized for the message; nothing follows them.
C1_ContentLengthExact ==
    EncodeOk =>
        /\ HasPrefix(encOut.s, ContentLength)
        /\ IndexOf(encOut.s, CRLFCRLF) > Len(ContentLength) + 1
        /\ ~Atoi(FrameDigits(encOut.s)).err
        /\ Itoa(Atoi(FrameDigits(encOut.s)).v) = FrameDigits(encOut.s)
        /\ Len(FrameBody(encOut.s)) = Atoi(FrameDigits(encOut.s)).v
        /\ FrameBody(encOut.s) = EncoderEncode(encIn.msg).buf

\* C1 witness: a successful call on a hover reply whose contents hold a
\* two-byte character and a character the encoder escapes
C1_Witness ==
    /\ EncodeOk
    /\ encIn.msg.type = "HoverResponse"
    /\ encIn.msg.contents = <<"C3", "A9", "\"">>
    /\ encIn.msg.id = 2

----------------------------------------------------------------------------
(* The dispatcher *)

\* the handler of frame k never returns: the completion handler is blocked in
\* getEmbbeddables, while Handle waits in its select
Stuck(k) == proc = "running" /\ n = k /\ loop = "select" /\ tasks[k].pc = "block"

\* Handle has returned the deadline error for frame k, a full deadline after
\* its dispatch began, and the read loop is back at scanner.Scan()
TimedOut(k) ==
    /\ k <= Len(hist)
    /\ hist[k].outcome = "Failed" /\ hist[k].why = "deadline"
    /\ now - hist[k].t0 >= Deadline
    /\ proc = "running"

\* C2: when the handler of a message never returns, Handle returns Failed by
\* the deadline, one second after the dispatch of that message began, and the
\* read loop goes on: a frame it reads next is dispatched.
C2_DeadlineThenContinue ==
    /\ \A k \in 1..MaxFrames : Stuck(k) ~> (TimedOut(k) /\ n = k /\ loop = "scan")
    /\ \A k \in 1..(MaxFrames - 1) :
         (TimedOut(k) /\ n = k + 1 /\ loop = "dispatch") ~> (tasks[k + 1].pc # "none")

\* C2 witness: the handler of frame 2 never returned, Handle timed out a second
\* after its dispatch, and the next frame, dispatched later, is being handled
C2_Witness ==
    /\ TimedOut(2) /\ tasks[2].pc = "block"
    /\ n = 3 /\ loop = "select" /\ tasks[3].pc = "block" /\ now = 2 * Deadline

\* the replies written for frame k
Replies(k) == {i \in 1..Len(out) : out[i].frame = k}

\* C3: a frame on which DecodeMessage fails is skipped: the read loop is
\* still running after it, ready to read and dispatch the later frames.
C3_BadFrameSkipped ==
    \A k \in 1..Len(hist) :
        hist[k].outcome = "DecodeError" => (proc = "running" /\ loop # "done")

\* C4: a message of an unsupported method makes its handler return an error;
\* when the handler of the current message has returned an error, Handle
\* returns Failed, nothing is written, and the read loop goes back to
\* scanner.Scan() with the process running; no reply is ever written for a
\* message whose outcome is Failed.
C4_FailedNoReply ==
    /\ [](\A k \in 1..MaxFrames :
            (tasks[k].pc \notin {"none", "start"} /\ tasks[k].f.m = MUnknown)
                => (tasks[k].pc = "sendErr" /\ tasks[k].err = "unknown method"))
    /\ [][(loop = "select" /\ tasks[n].pc = "sendErr" /\ loop' # loop)
            => /\ hist'[n].outcome = "Failed"
               /\ out' = out
               /\ loop' = "scan"
               /\ proc' = "running"]_vars
    /\ [](\A k \in 1..Len(hist) : hist[k].outcome = "Failed" => Replies(k) = {})

\* C4 witness: the first message had an unsupported method, its handler's
\* error made it Failed with nothing written, and the second frame has been
\* read and is being dispatched
C4_Witness ==
    /\ n = 2 /\ loop = "dispatch" /\ proc = "running"
    /\ hist[1].m = MUnknown /\ hist[1].outcome = "Failed" /\ hist[1].why = "error"
    /\ out = <<>>

\* C5: at most one reply is ever written for a frame read from the input.
C5_AtMostOneReply ==
    \A k \in 1..Len(hist) : Cardinality(Replies(k)) <= 1 /\ hist[k].replies <= 1

\* C5 witness: the hover request of frame 2 was reported Failed at the
\* deadline, its handler completed afterwards with a result nobody receives,
\* and the request of frame 3 got its one reply
C5_Witness ==
    /\ n = 3 /\ TimedOut(2) /\ hist[2].m = MHover
    /\ tasks[2].pc = "sendResult" /\ Replies(2) = {}
    /\ Cardinality(Replies(3)) = 1

\* request j is in flight: its handler has not returned
InFlight(j) == tasks[j].pc \in {"block", "hover", "readFile"}

\* the handler of frame k is about to run on a message of method m whose
\* parameters decode
About(k, m) == tasks[k].pc = "start" /\ tasks[k].f.m = m /\ tasks[k].f.ok

\* C6: when the cancel handler runs for the identifier of a hover or
\* completion request that is in flight, it finds a cancellation handle under
\* that identifier in the in-flight table and returns normally.
C6_CancelFindsHandle ==
    \A k, j \in 1..MaxFrames :
        (/\ About(k, MCancel)
         /\ ~ParseCancelParams(tasks[k].f.cid).err
         /\ InFlight(j) /\ tasks[j].f.m \in {MHover, MCompletion}
         /\ tasks[j].f.id = ParseCancelParams(tasks[k].f.cid).v)
            => /\ ~MapGet(cancelMap, tasks[j].f.id).panic
               /\ MapGet(cancelMap, tasks[j].f.id).ok
               /\ Handle_(tasks[k].f, documents, cancelMap).k = "return"

\* the in-flight table has no entry under id
NoHandle(id) == cancelMap.nil \/ id \notin DOMAIN cancelMap.m \/ ~cancelMap.m[id].in

\* C7: a cancel request whose identifier, numeric or string, has no entry in
\* the in-flight table is handled without error or panic: the handler returns
\* the cancel response for that identifier and leaves the Document Store and
\* the table as they are.
C7_UnknownCancelIsNoOp ==
    \A k \in 1..MaxFrames :
        (/\ About(k, MCancel)
         /\ ~ParseCancelParams(tasks[k].f.cid).err
         /\ NoHandle(ParseCancelParams(tasks[k].f.cid).v))
            => Handle_(tasks[k].f, documents, cancelMap)
                 = Return(CancelResponse(ParseCancelParams(tasks[k].f.cid).v), documents)

\* C8: with no entry in the in-flight table, the shutdown handler returns
\* the acknowledgement carrying the request's id, and the exit handler
\* reaches os.Exit; neither panics.
C8_ShutdownExitSafe ==
    \A k \in 1..MaxFrames :
        /\ (About(k, MShutdown) /\ \A i \in Ids : NoHandle(i))
              => Handle_(tasks[k].f, documents, cancelMap)
                   = Return(ShutdownResponse(tasks[k].f.id), documents)
        /\ (About(k, MExit) /\ \A i \in Ids : NoHandle(i))
              => Handle_(tasks[k].f, documents, cancelMap).k = "exit"

\* C9: the didChange handler returns, with or without an error, on every
\* body that decodes, so that the message ends Suppressed or Failed; it
\* never panics.
C9_DidChangeNeverCrashes ==
    \A k \in 1..MaxFrames :
        About(k, MDidChange) => Handle_(tasks[k].f, documents, cancelMap).k = "return"

\* C10: every key of the Document Store ends in ".go".
C10_StoreKeysGoSuffix ==
    \A u \in DOMAIN documents.m : documents.m[u].in => HasSuffix(u, GoSuffix)

----------------------------------------------------------------------------
(* Notifications *)

SyncNotifications == {MInitialized, MDidOpen, MDidChange, MDidSave, MDidClose}

\* C11: no reply frame is ever written for an initialized, didOpen,
\* didChange, didSave or didClose notification, whatever its outcome.
C11_NotificationsNeverReply ==
    \A k \in 1..Len(hist) :
        hist[k].m \in SyncNotifications => (Replies(k) = {} /\ hist[k].replies = 0)

\* C11 witness: a didOpen handled with success, a didSave that timed out in
\* os.ReadFile and a didClose whose body did not decode, and nothing written
C11_Witness ==
    /\ n = 3 /\ loop = "scan" /\ out = <<>>
    /\ hist[1].m = MDidOpen /\ hist[1].outcome = "Suppressed"
    /\ hist[2].m = MDidSave /\ hist[2].outcome = "Failed" /\ hist[2].why = "deadline"
    /\ hist[3].m = MDidClose /\ hist[3].outcome = "Failed" /\ hist[3].why = "error"

----------------------------------------------------------------------------
(* The store under concurrent callers *)

NoMutation == [op |-> "none", key |-> <<>>, val |-> <<>>, busy |-> {}]

\* the latest mutation in log that concerns key k: a Set or Delete of k, or
\* a Clear
RECURSIVE LatestMutation(_, _)
LatestMutation(log, k) ==
    IF log = <<>> THEN NoMutation
    ELSE LET e == log[Len(log)] IN
         IF e.op = "Clear" \/ e.key = k THEN e
         ELSE LatestMutation(SubSeq(log, 1, Len(log) - 1), k)

\* C12: a Get of k returns (v, true) when the latest mutation of k was
\* Set(k, v); when k was never set, or was last deleted or cleared, it
\* returns false with a reference to the zero value.
C12_GetReturnsLatest ==
    \A t \in Threads :
        (thr[t].op = "Get" /\ thr[t].pc = "unlock") =>
            LET e == LatestMutation(mlog, thr[t].key) IN
            IF e.op = "Set" THEN thr[t].ret.ok /\ thr[t].ret.val = e.val
            ELSE ~thr[t].ret.ok /\ thr[t].ret.val = <<>>

\* C12 witness: a Get of a key that was set and then cleared returns
\* not-found
C12_Witness ==
    /\ Len(mlog) = 2 /\ mlog[1].op = "Set" /\ mlog[1].key = UriGo /\ mlog[2].op = "Clear"
    /\ \E t \in Threads : /\ thr[t].op = "Get" /\ thr[t].pc = "unlock"
                           /\ thr[t].key = UriGo /\ ~thr[t].ret.ok

\* all goroutines have returned from their calls
AllReturned == \A t \in Threads : thr[t].pc = "idle"

\* the calls made so far are Sets on pairwise distinct keys
OnlyDistinctSets ==
    /\ \A t \in Threads : thr[t].op \in {"none", "Set"}
    /\ \A i \in DOMAIN mlog : mlog[i].op = "Set"
    /\ \A i, j \in DOMAIN mlog : i # j => mlog[i].key # mlog[j].key

\* C13: once concurrent Sets on pairwise distinct keys have all returned,
\* every key maps to the value set for it and Len() is the number of keys.
C13_NoLostUpdate ==
    (AllReturned /\ OnlyDistinctSets) =>
        /\ \A i \in DOMAIN mlog :
              /\ MapGet(store, mlog[i].key).ok
              /\ MapGet(store, mlog[i].key).val = mlog[i].val
        /\ MapLen(store) = Len(mlog)

\* C13 witness: two Sets on distinct keys have returned, the first of them
\* having written while the other goroutine was inside its own Set
C13_Witness ==
    /\ AllReturned /\ OnlyDistinctSets
    /\ Len(mlog) = 2 /\ mlog[1].busy # {}
    /\ \A t \in Threads : thr[t].calls = 1

\* goroutine t is at a read of the field sm.m made without the lock
UnlockedFieldRead(t) == thr[t].pc = "log" /\ thr[t].op \in {"Delete", "Clear"}

\* C14: no goroutine accesses the map while a writer is mutating it: none
\* is at an access of the map, or of the field that holds it, while another
\* is at the write of its body.
C14_MapAccessUnderLock ==
    \A t, u \in Threads :
        t # u =>
            /\ ~(UnlockedFieldRead(t) /\ thr[u].pc = "body" /\ thr[u].op = "Clear")
            /\ ~(thr[t].pc = "body" /\ thr[u].pc = "body" /\ thr[u].op \in Writers)

\* what the holder of a slice returned by Values() sees in it now
LiveValues ==
    CHOOSE sl \in {[i \in DOMAIN o |-> store.m[o[i]].v] : o \in KeyOrders(store)} : TRUE
Deref(snap) == IF snap.view THEN LiveValues ELSE snap.vals

Count(seq, v) == Cardinality({i \in DOMAIN seq : seq[i] = v})

\* C15: at every later instant a slice returned by Values() holds exactly
\* the values the store held when it was taken, one per key, so that its
\* length is Len() of that instant.
C15_ValuesSnapshot ==
    \A i \in DOMAIN snaps :
        LET c == Deref(snaps[i])
            at == snaps[i].at
        IN  /\ Len(c) = Cardinality({k \in DOMAIN at : at[k].in})
            /\ \A v \in Texts : Count(c, v) = Cardinality({k \in DOMAIN at : at[k] = Entry(v)})

\* C15 witness: a slice taken when two keys held the same value, and the
\* store cleared afterwards
C15_Witness ==
    /\ Len(snaps) = 1 /\ Len(snaps[1].vals) = 2 /\ snaps[1].vals[1] = snaps[1].vals[2]
    /\ MapLen(store) = 0 /\ mlog # <<>> /\ mlog[Len(mlog)].op = "Clear"

----------------------------------------------------------------------------
(* rpc.DecodeMessage, from its description: the declared length is parsed  *)
(* from the header, the body is unmarshalled far enough to recover its     *)
(* `method` member, and the body is retained.                              *)

\* m.Method() of the replies, as bytes
MethodName(msg) ==
    CASE msg.type = "CancelResponse" -> <<"$", "/", "c", "a", "n", "c", "e", "l", "R", "e", "q", "u", "e", "s", "t">>
      [] msg.type = "ShutdownResponse" -> <<"s", "h", "u", "t", "d", "o", "w", "n">>
      [] msg.type = "InitializeResponse" -> <<"i", "n", "i", "t", "i", "a", "l", "i", "z", "e">>
      [] msg.type = "HoverResponse" -> <<"t", "e", "x", "t", "D", "o", "c", "u", "m", "e", "n", "t", "/", "h", "o", "v", "e", "r">>
      [] OTHER -> <<>>

\* the bytes of s without the white space at its end
RECURSIVE TrimRight(_)
TrimRight(s) ==
    IF s # <<>> /\ s[Len(s)] \in {"\n", " ", "\r"} THEN TrimRight(SubSeq(s, 1, Len(s) - 1))
    ELSE s

\* json.Valid on the texts of the model: the JSON texts are the
\* serializations of the messages, white space allowed after the value
JSONValid(b) == \E m \in EncMessages : m.type # "Unserializable" /\ JSONMarshal(m) = TrimRight(b)

\* the value of the string member `key` of the object b at its top level,
\* empty when b has no such member: a quote opens or closes a string unless
\* an odd run of backslashes precedes it, and the braces outside strings
\* give the nesting depth
TopLevelMember(b, key) ==
    LET Run(i) == Cardinality({j \in 1..(i - 1) : \A h \in j..(i - 1) : b[h] = "\\"})
        Quote(i) == b[i] = "\"" /\ Run(i) % 2 = 0
        InStr(i) == Cardinality({j \in 1..(i - 1) : Quote(j)}) % 2 = 1
        Depth(i) == Cardinality({j \in 1..(i - 1) : b[j] = "{" /\ ~InStr(j)})
                      - Cardinality({j \in 1..(i - 1) : b[j] = "}" /\ ~InStr(j)})
        pat == JSONKey(key) \o <<"\"">>
        at == {i \in 1..(Len(b) - Len(pat)) :
                 /\ SubSeq(b, i, i + Len(pat) - 1) = pat
                 /\ ~InStr(i) /\ Depth(i) = 1}
    IN  IF at = {} THEN <<>>
        ELSE LET i == CHOOSE x \in at : TRUE
                 start == i + Len(pat)
                 close == CHOOSE j \in start..Len(b) :
                             Quote(j) /\ \A h \in start..(j - 1) : ~Quote(h)
             IN  SubSeq(b, start, close - 1)

DecodeFailed == [err |-> TRUE, method |-> <<>>, content |-> <<>>]

\* rpc.DecodeMessage(frame)
DecodeMessage(frame) ==
    LET sep == IndexOf(frame, CRLFCRLF)
        header == SubSeq(frame, 1, sep - 1)
        length == Atoi(SubSeq(header, Len(ContentLength) + 1, Len(header)))
        rest == SubSeq(frame, sep + Len(CRLFCRLF), Len(frame))
    IN  IF sep = 0 \/ ~HasPrefix(header, ContentLength) \/ length.err THEN DecodeFailed
        ELSE IF Len(rest) < length.v THEN DecodeFailed
        ELSE LET content == SubSeq(rest, 1, length.v) IN
             IF ~JSONValid(content) THEN DecodeFailed
             ELSE [err |-> FALSE, method |-> TopLevelMember(content, KMethod),
                   content |-> content]

C17_BodyIsCompactJSON ==
    EncodeOk =>
        /\ FrameBody(encOut.s) = JSONMarshal(encIn.msg)
        /\ \A i \in DOMAIN FrameBody(encOut.s) : FrameBody(encOut.s)[i] # "\n"

\* the reply the handler returns to an initialize request with identifier i
InitializeReply(i) == Handle_(Plain(MInitialize, TRUE, i), NewSafeMap(URIs), NewLSPHandler).res

\* the object b has the member key with the value text v
HasMember(b, key, v) ==
    \/ IndexOf(b, JSONKey(key) \o v \o <<",">>) > 0
    \/ IndexOf(b, JSONKey(key) \o v \o <<"}">>) > 0

\* C19: the encoded reply to an initialize request with identifier i has
\* the member id equal to i, for i = 0 too, and its capabilities advertise
\* hover, completion and definition.
C19_InitializeEchoesId ==
    \A i \in 0..MaxEncId :
        (EncodeOk /\ encIn.msg = InitializeReply(i)) =>
            /\ HasMember(FrameBody(encOut.s), KId, Itoa(i))
            /\ HasMember(FrameBody(encOut.s), KHoverProvider, JTrue)
            /\ HasMember(FrameBody(encOut.s), KDefinitionProvider, JTrue)
            /\ HasMember(FrameBody(encOut.s), KCompletionProvider, <<"{", "}">>)

----------------------------------------------------------------------------
(* rpc.Split under bufio.Scanner: the read loop's scanner reads its input  *)
(* in chunks of any size and offers the bytes it holds to Split.           *)

MaxStreamFrames == 2
MaxChunk == 3

TenBytes == <<"0", "1", "2", "3", "4", "5", "6", "7", "8", "9">>

\* bodies of 0, 4 and 10 bytes; one is itself the blank line that ends a header
SplitBodies == {<<>>, CRLFCRLF, TenBytes}

\* a frame on the wire
Wire(body) == ContentLength \o Itoa(Len(body)) \o CRLFCRLF \o body

RECURSIVE WireStreams(_)
\* the concatenations of exactly k frames
WireStreams(k) ==
    IF k = 0 THEN {<<>>}
    ELSE {Wire(b) \o rest : b \in SplitBodies, rest \in WireStreams(k - 1)}

\* what the client may have sent when the input ends: up to MaxStreamFrames
\* frames, the last possibly cut short
Streams ==
    UNION {{SubSeq(w, 1, l) : l \in 0..Len(w)} :
              w \in UNION {WireStreams(k) : k \in 1..MaxStreamFrames}}

NeedMore == [more |-> TRUE, advance |-> 0, token |-> <<>>]

\* a frame as soon as the blank line is there, whatever follows it
SplitHeaderOnly(data, atEOF) ==
    LET sep == IndexOf(data, CRLFCRLF)
        header == SubSeq(data, 1, sep - 1)
        length == Atoi(SubSeq(header, Len(ContentLength) + 1, Len(header)))
        total == (sep - 1) + Len(CRLFCRLF) + length.v
        have == IF Len(data) < total THEN Len(data) ELSE total
    IN  IF sep = 0 THEN NeedMore
        ELSE [more |-> FALSE, advance |-> have, token |-> SubSeq(data, 1, have)]

\* rpc.Split(data, atEOF): more bytes are needed while the header is
\* incomplete or fewer body bytes than it declares are there; otherwise the
\* frame and the bytes to advance (header bytes + declared body length)
Split(data, atEOF) ==
    LET sep == IndexOf(data, CRLFCRLF)
        header == SubSeq(data, 1, sep - 1)
        length == Atoi(SubSeq(header, Len(ContentLength) + 1, Len(header)))
        total == (sep - 1) + Len(CRLFCRLF) + length.v
    IN  IF sep = 0 THEN NeedMore
        ELSE IF Len(data) < total THEN NeedMore
        ELSE [more |-> FALSE, advance |-> total, token |-> SubSeq(data, 1, total)]

InitSplit ==
    /\ proc = "running"
    /\ loop = "scan"
    /\ n = 0
    /\ cur = BadFrame
    /\ resp = NilActor
    /\ now = 0
    /\ deadline = 0
    /\ tasks = [k \in 1..MaxFrames |-> NoTask]
    /\ documents = NewSafeMap(URIs)
    /\ cancelMap = NewLSPHandler
    /\ out = <<>>
    /\ hist = <<>>
    /\ encIn = NoCall
    /\ encOut = Pending
    /\ store = NewSafeMap(URIs)
    /\ mu = Unlocked
    /\ thr = [t \in Threads |-> IdleThread]
    /\ mlog = <<>>
    /\ snaps = <<>>
    /\ \E w \in Streams : scn = [ScannerIdle EXCEPT !.stream = w]
    /\ prs = ParseIdle

\* Scanner.Scan reads more of the input into its buffer: some bytes, or the
\* end of the input
ScannerRead ==
    /\ ~scn.done /\ ~scn.eof
    /\ scn.need \/ scn.buf = <<>>
    /\ IF scn.fed = Len(scn.stream)
       THEN scn' = [scn EXCEPT !.eof = TRUE, !.need = FALSE]
       ELSE \E c \in 1..MaxChunk :
                LET to == IF scn.fed + c > Len(scn.stream) THEN Len(scn.stream)
                          ELSE scn.fed + c
                IN  scn' = [scn EXCEPT !.buf = @ \o SubSeq(scn.stream, scn.fed + 1, to),
                                       !.fed = to, !.need = FALSE]
    /\ UNCHANGED <<srv, encIn, encOut, store, mu, thr, mlog, snaps, prs>>

\* Scanner.Scan offers the buffered bytes to the split function: a token is
\* handed to the loop and the buffer advances; otherwise it reads on, or
\* stops when the input has ended
ScannerSplit ==
    /\ ~scn.done /\ ~scn.need
    /\ scn.buf # <<>> \/ scn.eof
    /\ LET r == Split(scn.buf, scn.eof) IN
       IF r.more
       THEN scn' = [scn EXCEPT !.need = ~scn.eof, !.done = scn.eof]
       ELSE scn' = [scn EXCEPT
                       !.toks = Append(@, [token |-> r.token, advance |-> r.advance,
                                           held |-> scn.buf]),
                       !.buf = SubSeq(@, r.advance + 1, Len(@))]
    /\ UNCHANGED <<srv, encIn, encOut, store, mu, thr, mlog, snaps, prs>>

NextSplit == ScannerRead \/ ScannerSplit

SpecSplit == InitSplit /\ [][NextSplit]_vars

RECURSIVE SplitAll(_)
\* the frames Split yields when it is given the whole input at once
SplitAll(data) ==
    LET r == Split(data, TRUE)
    IN  IF r.more THEN <<>>
        ELSE <<r.token>> \o SplitAll(SubSeq(data, r.advance + 1, Len(data)))

\* the tokens the scanner has returned so far
Tokens == [i \in DOMAIN scn.toks |-> scn.toks[i].token]

\* the bytes of the input consumed by the tokens returned so far
Consumed == scn.fed - Len(scn.buf)

\* the body length a frame's header declares
Declared(frame) == Atoi(FrameDigits(frame)).v

\* C18: Split returns a frame only when the bytes it holds contain the
\* whole header and the number of body bytes the header declares; the frame
\* advances exactly header bytes plus declared body length, so that the next
\* frame's bytes stay in the buffer; and however the input is cut into
\* chunks, the frames returned are those of splitting the input at once.
C18_SplitFramesExact ==
    /\ \A i \in DOMAIN scn.toks :
          LET t == scn.toks[i]
              sep == IndexOf(t.held, CRLFCRLF)
          IN  /\ sep > 0
              /\ Len(t.held) >= (sep - 1) + Len(CRLFCRLF) + Declared(t.held)
              /\ t.advance = (sep - 1) + Len(CRLFCRLF) + Declared(t.held)
              /\ t.token = SubSeq(t.held, 1, t.advance)
              /\ Len(FrameBody(t.token)) = Declared(t.token)
    /\ Consumed >= 0
    /\ scn.buf = SubSeq(scn.stream, Consumed + 1, scn.fed)
    /\ \E k \in 0..Len(SplitAll(scn.stream)) : Tokens = SubSeq(SplitAll(scn.stream), 1, k)
    /\ scn.done => Tokens = SplitAll(scn.stream)

\* a frame whose body is the blank line has been returned while bytes of
\* the next frame were already in the buffer, from an input read in more
\* than one chunk, and the scanner has stopped with the cut second frame
\* left over
C18_Witness ==
    /\ scn.done
    /\ Len(scn.toks) = 1
    /\ FrameBody(scn.toks[1].token) = CRLFCRLF
    /\ Len(scn.toks[1].held) < Len(scn.stream)
    /\ Len(scn.toks[1].held) > scn.toks[1].advance
    /\ scn.buf # <<>>

----------------------------------------------------------------------------
(* Hover on an embed directive *)

\* the contents of the file of the document's directory named exactly name
FileNamed(name) == (CHOOSE i \in DOMAIN DirEntries : DirEntries[i].name = name).data

\* frame 1 opened a.go with the directive on its line 0 and frame 2, a hover
\* on that line, has been handled to a result
HoverOnDirectiveDone ==
    /\ n = 2 /\ Len(hist) = 2
    /\ hist[1].m = MDidOpen /\ hist[1].outcome = "Suppressed"
    /\ MapGet(documents, UriGo).ok /\ MapGet(documents, UriGo).val = TextB
    /\ cur.m = MHover /\ cur.ok /\ cur.uri = UriGo /\ cur.line = 0
    /\ SplitLines(TextB)[cur.line + 1] = EmbedDirective
    /\ hist[2].outcome \in {"Suppressed", "Replied"}

\* C20: after a didOpen of a .go document, a hover on the line holding
\* `// go:embed foo.txt` whose handling reaches a result is answered by a
\* reply with the request's id and the contents of the file named exactly
\* foo.txt, whatever other files the directory holds.
C20_HoverReturnsEmbeddedFile ==
    HoverOnDirectiveDone =>
        /\ hist[2].outcome = "Replied"
        /\ out = <<[frame |-> 2, resp |-> HoverResponse(cur.id, FileNamed(FooTxt))]>>

----------------------------------------------------------------------------
(* Completion on a comment line *)

\* the names of the files of the document's directory that are not directories
FileNames == {DirEntries[i].name : i \in {j \in DOMAIN DirEntries : ~DirEntries[j].isDir}}

\* frame 1 opened a.go with a comment on its line 0 and frame 2, a completion
\* request on that line, has been handled to its end
CompletionOnCommentDone ==
    /\ n = 2 /\ Len(hist) = 2
    /\ hist[1].m = MDidOpen /\ hist[1].outcome = "Suppressed"
    /\ MapGet(documents, UriGo).ok /\ MapGet(documents, UriGo).val = TextA
    /\ cur.m = MCompletion /\ cur.ok /\ cur.uri = UriGo /\ cur.line = 0
    /\ ParseSourcePosition(Ptr(TextA), cur.line).state = StateInComment
    /\ hist[2].outcome \notin {"Pending", "WriteFailed"}

\* C21: a completion request on a comment line of an open document is
\* answered by a completion response with the request's id whose items are
\* the names of the files of the document's directory that are not
\* directories.
C21_CompletionListsFiles ==
    CompletionOnCommentDone =>
        /\ hist[2].outcome = "Replied"
        /\ Len(out) = 1 /\ out[1].frame = 2
        /\ out[1].resp.type = "TextDocumentCompletionResponse"
        /\ out[1].resp.id = cur.id
        /\ out[1].resp.contents = FileNames

----------------------------------------------------------------------------
(* parsers.ParseSourcePosition on its own: one call of either revision on  *)
(* any source and position                                                 *)

MaxParseLine == 2

Slashes == <<"/", "/">>
BlockOpen == <<"/", "*">>
BlockClose == <<"*", "/">>

\* lines made of optional leading white space, a comment marker, a word, a
\* path and the end of a block comment, each present or not
ParseLines ==
    {lead \o marker \o gap \o word \o sep \o path \o close :
        lead \in {<<>>, <<" ">>},
        marker \in {<<>>, Slashes, BlockOpen},
        gap \in {<<>>, <<" ">>},
        word \in {<<>>, GoEmbed, <<"g">>, <<"a">>},
        sep \in {<<>>, <<" ">>},
        path \in {<<>>, <<"a">>},
        close \in {<<>>, BlockClose, <<" ">> \o BlockClose}}

\* the sources: nil, one line, a line and an empty one, a line after another
ParseSources ==
    {NilSource}
        \cup {Ptr(l) : l \in ParseLines}
        \cup {Ptr(l \o <<"\n">>) : l \in ParseLines}
        \cup {Ptr(<<"x", "\n">> \o l) : l \in ParseLines}

InitParse ==
    /\ proc = "running"
    /\ loop = "scan"
    /\ n = 0
    /\ cur = BadFrame
    /\ resp = NilActor
    /\ now = 0
    /\ deadline = 0
    /\ tasks = [k \in 1..MaxFrames |-> NoTask]
    /\ documents = NewSafeMap(URIs)
    /\ cancelMap = NewLSPHandler
    /\ out = <<>>
    /\ hist = <<>>
    /\ encIn = NoCall
    /\ encOut = Pending
    /\ store = NewSafeMap(URIs)
    /\ mu = Unlocked
    /\ thr = [t \in Threads |-> IdleThread]
    /\ mlog = <<>>
    /\ snaps = <<>>
    /\ scn = ScannerIdle
    /\ \E src \in ParseSources, l \in 0..MaxParseLine :
          prs = [ParseIdle EXCEPT !.source = src, !.line = l, !.pc = "call"]

\* the call of the parser of the latest revision returns
ParseCall ==
    /\ prs.pc = "call"
    /\ prs' = [prs EXCEPT !.pc = "returned", !.rev = "latest",
                          !.ret = ParseSourcePosition(prs.source, prs.line)]
    /\ UNCHANGED <<srv, encIn, encOut, store, mu, thr, mlog, snaps, scn>>

\* the call of the parser of the revision with the directive pattern returns
ParseCallRegex ==
    /\ prs.pc = "call"
    /\ prs' = [prs EXCEPT !.pc = "returned", !.rev = "regex",
                          !.ret = ParseSourcePositionRegex(prs.source, prs.line)]
    /\ UNCHANGED <<srv, encIn, encOut, store, mu, thr, mlog, snaps, scn>>

NextParse == ParseCall \/ ParseCallRegex

SpecParse == InitParse /\ [][NextParse]_vars

ParseReturned == prs.pc = "returned"

\* the index in lines of the line the call addresses: position.Line in the
\* latest revision, position.Line-1 in the other
AddressedIndex == IF prs.rev = "regex" THEN prs.line ELSE prs.line + 1

\* the call addresses a line of a source that is there
Addresses ==
    /\ ParseReturned /\ ~prs.source.nil
    /\ AddressedIndex \in 1..Len(SplitLines(prs.source.s))

AddressedLine == SplitLines(prs.source.s)[AddressedIndex]

\* l without its leading white space
TrimLeft(l) == SubSeq(l, SkipSpace(l, 1), Len(l))

NoSpaceIn(t) == \A i \in DOMAIN t : ~IsSpace(t[i])

\* what follows `<open> go:embed ` in l: l is open, optional white space,
\* go:embed, white space, and then this; empty when l is not of that form
AfterGoEmbed(l, open) ==
    LET i2 == SkipSpace(l, Len(open) + 1)
        i3 == i2 + Len(GoEmbed)
    IN  IF HasPrefix(l, open) /\ HasAt(l, i2, GoEmbed) /\ SkipSpace(l, i3) > i3
        THEN SubSeq(l, SkipSpace(l, i3), Len(l))
        ELSE <<>>

\* the path of the single-line directive l, empty when l is not one: the
\* rest of the line after go:embed and white space, a token
LineDirectivePath(l) ==
    IF NoSpaceIn(AfterGoEmbed(l, Slashes)) THEN AfterGoEmbed(l, Slashes) ELSE <<>>

\* the path of the block directive l that closes on its line, empty when l
\* is not one: a token followed by optional white space and the closing marker
BlockDirectivePath(l) ==
    LET rest == AfterGoEmbed(l, BlockOpen)
        ends == {e \in 1..Len(rest) :
                    /\ NoSpaceIn(SubSeq(rest, 1, e))
                    /\ IndexOf(SubSeq(rest, 1, e), BlockClose) = 0
                    /\ SkipSpace(rest, e + 1) = Len(rest) - 1
                    /\ HasAt(rest, Len(rest) - 1, BlockClose)}
    IN  IF ends = {} THEN <<>> ELSE SubSeq(rest, 1, CHOOSE e \in ends : TRUE)

\* C22: when the addressed line is a single-line comment matching the
\* directive pattern (//, optional white space, go:embed, white space, a
\* path token to the end of the line), the parser returns InComment with
\* that path and no error.
C22_LineDirectivePath ==
    (Addresses /\ LineDirectivePath(AddressedLine) # <<>>)
        => prs.ret = Parsed(LineDirectivePath(AddressedLine), StateInComment)

\* C23: a line with white space before the comment marker is classified as
\* the line without it: for ` // go:embed a` the parser returns InComment
\* with the path.
C23_LeadingSpaceTrimmed ==
    (Addresses /\ IsSpace(Head(AddressedLine \o <<"x">>))
               /\ LineDirectivePath(TrimLeft(AddressedLine)) # <<>>)
        => prs.ret = Parsed(LineDirectivePath(TrimLeft(AddressedLine)), StateInComment)

\* C24: when the addressed line is a single-line or block comment that does
\* not match the directive pattern, the parser returns InComment with an
\* empty path and no error.
C24_PlainCommentNoPath ==
    (Addresses /\ (HasPrefix(AddressedLine, Slashes) \/ HasPrefix(AddressedLine, BlockOpen))
               /\ LineDirectivePath(AddressedLine) = <<>>
               /\ AfterGoEmbed(AddressedLine, BlockOpen) = <<>>)
        => prs.ret = Parsed(<<>>, StateInComment)

\* C25: when the addressed line starts with the block-comment marker, the
\* parser returns InComment, with the path of the directive when one opens
\* and closes on that line and with no path when the comment does not close
\* on the line.
C25_BlockDirectivePath ==
    (Addresses /\ HasPrefix(AddressedLine, BlockOpen)
               /\ (BlockDirectivePath(AddressedLine) # <<>>
                      \/ IndexOf(AddressedLine, BlockClose) = 0))
        => prs.ret = Parsed(BlockDirectivePath(AddressedLine), StateInComment)

\* C26: the parser returns Unknown with an empty path and no error when the
\* source is nil, when the addressed line is empty, and when it starts with
\* neither comment marker.
C26_UnknownOtherwise ==
    /\ (ParseReturned /\ prs.source.nil) => prs.ret = Parsed(<<>>, StateUnknown)
    /\ (Addresses /\ (\/ AddressedLine = <<>>
                      \/ ~(HasPrefix(AddressedLine, Slashes)
                              \/ HasPrefix(AddressedLine, BlockOpen))))
          => prs.ret = Parsed(<<>>, StateUnknown)

\* a call of the latest revision on a two-line source has returned for the
\* line ` a`, which starts with no comment marker
C26_Witness ==
    /\ Addresses /\ prs.rev = "latest" /\ prs.line = 1
    /\ AddressedLine = <<" ", "a">>
    /\ prs.ret.state = StateUnknown /\ ~prs.ret.panic

\* C27: for a source that is there and a line number that is not the index
\* of one of its lines, the parser returns Unknown with no path and no error
\* and does not panic.
C27_OutOfRangeUnknown ==
    (ParseReturned /\ ~prs.source.nil /\ ~Addresses) => prs.ret = Parsed(<<>>, StateUnknown)

----------------------------------------------------------------------------
(* Serial dispatch *)

\* C28: when the read loop is handling frame number n, the handling of every
\* earlier frame has fully resolved: it has an outcome and its handler task
\* is no longer running; and the replies stand on the output in the order
\* in which their requests arrived.
C28_DispatchSerialized ==
    /\ \A k \in 1..Len(hist) :
          k < n => /\ hist[k].outcome # "Pending"
                   /\ tasks[k].pc \in {"none", "done"}
    /\ \A i, j \in DOMAIN out : i < j => out[i].frame < out[j].frame

----------------------------------------------------------------------------
(* The store under the document-sync notifications *)

\* the frame is a well-formed didOpen, didClose or didChange with its one
\* full-text payload, for a URI that ends in .go
SyncOfGoDocument(f) ==
    /\ f.ok /\ HasSuffix(f.uri, GoSuffix)
    /\ f.m \in {MDidOpen, MDidClose} \/ (f.m = MDidChange /\ Len(f.changes) = 1)

\* the entry of the store that the notification asks for
EntryAfter(f) ==
    CASE f.m = MDidOpen -> Entry(f.text)
      [] f.m = MDidChange -> Entry(f.changes[Len(f.changes)])
      [] OTHER -> Absent

\* C29: each didOpen, didChange and didClose for a .go URI, once handled,
\* leaves in the store for that URI exactly the text the notification
\* carries (no entry after a didClose) and leaves the entry of every other
\* URI as it was; so that after any sequence of them the store holds the
\* text of the most recent didOpen or didChange not followed by a didClose.
C29_StoreFollowsSync ==
    [][\A k \in 1..MaxFrames :
          (tasks[k].pc = "start" /\ tasks'[k].pc # "start" /\ SyncOfGoDocument(tasks[k].f))
              => /\ ~documents'.nil
                 /\ documents'.m[tasks[k].f.uri] = EntryAfter(tasks[k].f)
                 /\ \A u \in DOMAIN documents.m :
                        u # tasks[k].f.uri => documents'.m[u] = documents.m[u]]_vars

\* a.go was opened, changed and closed, each notification handled to its
\* end, and the store has no entry for it
C29_Witness ==
    /\ n = 3 /\ loop = "scan" /\ Len(hist) = 3
    /\ hist[1].m = MDidOpen /\ hist[2].m = MDidChange /\ hist[3].m = MDidClose
    /\ \A k \in 1..3 : hist[k].outcome = "Suppressed"
    /\ cur.uri = UriGo
    /\ ~MapGet(documents, UriGo).ok

----------------------------------------------------------------------------
(* Errors of the document-sync notifications *)

DocumentSync == {MDidOpen, MDidChange, MDidSave, MDidClose}

\* C30: when the body of a didOpen, didChange, didSave or didClose does not
\* decode, the handler returns the decode error; when os.ReadFile fails for a
\* didSave, it returns the error of the read; in both cases the Document
\* Store is left exactly as it was, and no reply is ever written for a
\* notification that failed.
C30_SyncErrorsLeaveStore ==
    /\ [][\A k \in 1..MaxFrames :
            (tasks[k].pc = "start" /\ tasks'[k].pc # "start"
                /\ tasks[k].f.m \in DocumentSync /\ ~tasks[k].f.ok)
                => /\ tasks'[k].pc = "sendErr" /\ tasks'[k].err = DecodeErr
                   /\ documents' = documents /\ out' = out]_vars
    /\ [][\A k \in 1..MaxFrames :
            (tasks[k].pc = "readFile" /\ tasks'[k].pc = "sendErr")
                => /\ tasks'[k].err = "failed to read file"
                   /\ documents' = documents /\ out' = out]_vars
    /\ [](\A k \in 1..Len(hist) :
            (hist[k].m \in DocumentSync /\ hist[k].outcome = "Failed") => Replies(k) = {})

\* a.go is open; a didClose whose body did not decode and a well-formed
\* didSave whose file could not be read have both failed, the document is
\* still in the store and nothing has been written
C30_Witness ==
    /\ n = 3 /\ loop = "scan" /\ Len(hist) = 3 /\ out = <<>>
    /\ hist[1].m = MDidOpen /\ hist[1].outcome = "Suppressed"
    /\ hist[2].m = MDidClose /\ hist[2].outcome = "Failed" /\ hist[2].why = "error"
    /\ hist[3].m = MDidSave /\ hist[3].outcome = "Failed" /\ hist[3].why = "error"
    /\ cur.ok /\ cur.uri = UriGo
    /\ MapGet(documents, UriGo).ok

----------------------------------------------------------------------------
(* Handler tasks that outlive Handle *)

\* C31: once Handle has reported the deadline for frame k, no step of the
\* handler task of frame k changes the Document Store.
C31_NoMutationAfterDeadline ==
    [][\A k \in 1..MaxFrames :
          (TimedOut(k) /\ tasks'[k] # tasks[k]) => documents' = documents]_vars

\* the file system answers: os.ReadFile and os.ReadDir return
FairnessIO ==
    /\ Fairness
    /\ \A k \in 1..MaxFrames : WF_vars(TaskReadFile(k)) /\ WF_vars(HoverG2Read(k))

SpecTerminate == Init /\ [][NextLive]_vars /\ FairnessIO

\* the goroutines started for frame k have all returned
Terminated(k) == tasks[k].pc = "done" /\ tasks[k].g2 \in {"none", "done"}

\* C32: every handler task that Handle started eventually terminates (or
\* the process ends), also when Handle returned on the deadline: none stays
\* blocked for ever on a send that nobody receives.
C32_TasksTerminate ==
    \A k \in 1..MaxFrames : (tasks[k].pc # "none") ~> (Terminated(k) \/ proc # "running")

----------------------------------------------------------------------------
(* getEmbbeddables and the empty path *)

\* C33: the completion handler is never blocked inside getEmbbeddables, and
\* no completion request has the deadline as its outcome.
C33_CompletionNeedsNoDeadline ==
    /\ \A k \in 1..MaxFrames : tasks[k].pc # "block"
    /\ \A k \in 1..Len(hist) : hist[k].m = MCompletion => hist[k].why # "deadline"

\* the contents of the files of the document's directory
FileContents == {DirEntries[i].data : i \in {j \in DOMAIN DirEntries : ~DirEntries[j].isDir}}

\* C34: when the parser has returned InComment with an empty path for a
\* hover, relativeReadFile does not hand the contents of a file to the
\* hover: the goroutine of getHoverResp has no file contents to send.
C34_EmptyPathReadsNoFile ==
    [][\A k \in 1..MaxFrames :
          (tasks[k].f.m = MHover /\ tasks[k].g2 = "read" /\ tasks[k].g2data = <<>>)
              => ~(tasks'[k].g2 = "sendResp" /\ tasks'[k].g2data \in FileContents)]_vars

============================================================================
